---- MODULE Spec2Model ----
(***************************************************************************)
(* Model of the decode pipeline of the image decryptor (src/script.js and  *)
(* its earlier generation src/unnamed/part_000): format sniffing, the      *)
(* "ENC_" container, the counter block rebuilt in floating point, the      *)
(* counter-mode stream cipher, the filename codec and the batch loop.      *)
(*                                                                         *)
(* Bytes are naturals 0..255, buffers are sequences of bytes, strings are  *)
(* sequences of Unicode scalar values (code points).                       *)
(***************************************************************************)
EXTENDS Naturals, Sequences, FiniteSets, TLC

VARIABLES
    phase,           \* position of the function under test: "input" | "done";
                     \* in a session, the last handler the user started
    arg,             \* the input(s) the function under test is applied to; in
                     \* a session, the selection the last decryptFiles found
    ret,             \* what it returned
    password,        \* value of the password field
    selectedFiles,   \* script.js:2
    decryptedFiles,  \* script.js:3
    extractedLinks,  \* script.js:4
    pc,              \* position of decryptFiles/processFile
    idx,             \* index of the file the for-of loop of decryptFiles is at
    key,             \* the key generateKey returned for this batch
    cur,             \* locals of the running processFile call
    counts,          \* successCount, errorCount, encryptedCount, unencryptedCount
    results,         \* what processFile returned, per file in loop order
    fileStatus,      \* the file cards of the files grid, each with its status
    urlsCreated,     \* number of object URLs URL.createObjectURL has handed out
    loopFiles,       \* the array the for-of loop of decryptFiles iterates
    loopLive,        \* TRUE while selectedFiles still is that array
    removalTimers,   \* ids whose removeFile timeout is pending, oldest first
    second           \* pc, idx, key, cur, counts, results, loopFiles and loopLive
                     \* of a call of decryptFiles made while another is suspended

harnessVars == <<phase, arg, ret>>
batchVars == <<password, selectedFiles, decryptedFiles, extractedLinks,
               pc, idx, key, cur, counts, results, fileStatus, urlsCreated,
               loopFiles, loopLive, removalTimers, second>>
vars == <<phase, arg, ret, password, selectedFiles, decryptedFiles,
          extractedLinks, pc, idx, key, cur, counts, results, fileStatus, urlsCreated,
          loopFiles, loopLive, removalTimers, second>>

(***************************************************************************)
(* Bounds of the model.                                                    *)
(***************************************************************************)
MaxSniffLen == 6
MaxRawTail == 18
MaxPlainLen == 17
MaxFiles == 2
MaxLegacyRaw == 17
MaxAdd == 2
MaxTimers == 1
MaxUrls == 1

(***************************************************************************)
(* Sequences and bytes.                                                    *)
(***************************************************************************)
Min(a, b) == IF a <= b THEN a ELSE b

SetMin(S) == CHOOSE x \in S : \A y \in S : x <= y

SetMax(S) == CHOOSE x \in S : \A y \in S : y <= x

\* ArrayBuffer.slice(begin, end) / Uint8Array.slice(begin, end) / substring:
\* 0-based, end exclusive, both clamped to the length.
Slice(s, begin, end) ==
    LET b == Min(begin, Len(s))
        e == Min(end, Len(s))
    IN IF e <= b THEN << >> ELSE SubSeq(s, b + 1, e)

\* slice(begin) with the end left out
SliceFrom(s, begin) == Slice(s, begin, Len(s))

\* Array.prototype.every with (byte, index) => byte === expected[index]:
\* only the elements the array HAS are tested; an index past the end of
\* `expected` reads undefined, which no byte equals.
EveryEquals(arr, expected) ==
    \A i \in 1..Len(arr) : i <= Len(expected) /\ arr[i] = expected[i]

\* begins-with, as the specification words it
IsPrefix(p, s) == Len(p) <= Len(s) /\ SubSeq(s, 1, Len(p)) = p

(***************************************************************************)
(* FormatSniffer: detectFileType of script.js.                             *)
(***************************************************************************)
fileTypes ==
    << [signature |-> <<255, 216>>,        ext |-> "jpg",  mime |-> "image/jpeg", type |-> "JPEG"],
       [signature |-> <<137, 80, 78, 71>>, ext |-> "png",  mime |-> "image/png",  type |-> "PNG"],
       [signature |-> <<66, 77>>,          ext |-> "bmp",  mime |-> "image/bmp",  type |-> "BMP"],
       [signature |-> <<82, 73, 70, 70>>,  ext |-> "webp", mime |-> "image/webp", type |-> "WEBP"],
       [signature |-> <<71, 73, 70, 56>>,  ext |-> "gif",  mime |-> "image/gif",  type |-> "GIF"] >>

UnknownType ==
    [ext |-> "bin", mime |-> "application/octet-stream", type |-> "Unknown", isValid |-> FALSE]

\* mutant: every signature is compared on its first two bytes only
detectFileType_TwoBytes(data) ==
    LET header == Slice(data, 0, 16)
        hits == { k \in 1..Len(fileTypes) :
                    EveryEquals(Slice(header, 0, 2), fileTypes[k].signature) }
    IN IF hits = {} THEN UnknownType
       ELSE LET ft == fileTypes[SetMin(hits)]
            IN [ext |-> ft.ext, mime |-> ft.mime, type |-> ft.type, isValid |-> TRUE]

detectFileType(data) ==
    LET header == Slice(data, 0, 16)
        hits == { k \in 1..Len(fileTypes) :
                    EveryEquals(Slice(header, 0, Len(fileTypes[k].signature)),
                                fileTypes[k].signature) }
    IN IF hits = {} THEN UnknownType
       ELSE LET ft == fileTypes[SetMin(hits)]
            IN [ext |-> ft.ext, mime |-> ft.mime, type |-> ft.type, isValid |-> TRUE]

(***************************************************************************)
(* detectFileType of the earlier generation (part_000): same table without *)
(* mime and isValid; the unknown type carries the Russian label for        *)
(* "unknown", written "Neizvestnyj" here.                                  *)
(***************************************************************************)
validHeaders ==
    << [bytes |-> <<255, 216>>,        ext |-> "jpg",  type |-> "JPEG"],
       [bytes |-> <<137, 80, 78, 71>>, ext |-> "png",  type |-> "PNG"],
       [bytes |-> <<66, 77>>,          ext |-> "bmp",  type |-> "BMP"],
       [bytes |-> <<82, 73, 70, 70>>,  ext |-> "webp", type |-> "WEBP"],
       [bytes |-> <<71, 73, 70, 56>>,  ext |-> "gif",  type |-> "GIF"] >>

detectFileType_part000(header) ==
    LET hits == { k \in 1..Len(validHeaders) :
                    EveryEquals(Slice(header, 0, Len(validHeaders[k].bytes)),
                                validHeaders[k].bytes) }
    IN IF hits = {} THEN [ext |-> "bin", type |-> "Neizvestnyj"]
       ELSE [ext |-> validHeaders[SetMin(hits)].ext, type |-> validHeaders[SetMin(hits)].type]

(***************************************************************************)
(* Bitwise exclusive or of two bytes (the ^ of script.js:65, and the XOR   *)
(* of counter mode).                                                       *)
(***************************************************************************)
RECURSIVE XorBits(_, _, _)
XorBits(a, b, n) ==
    IF n = 0 THEN 0
    ELSE (((a % 2) + (b % 2)) % 2) + 2 * XorBits(a \div 2, b \div 2, n - 1)

Xor8(a, b) == XorBits(a, b, 8)

(***************************************************************************)
(* TextEncoder / TextDecoder (UTF-8).  A string is a sequence of Unicode   *)
(* scalar values.  The decoder is the platform's: a malformed sequence     *)
(* becomes U+FFFD and decoding resumes at the first byte not consumed, and *)
(* a leading byte order mark is dropped (ignoreBOM is left at false).      *)
(***************************************************************************)
Utf8Bytes(cp) ==
    IF cp < 128 THEN << cp >>
    ELSE IF cp < 2048 THEN << 192 + (cp \div 64), 128 + (cp % 64) >>
    ELSE IF cp < 65536 THEN
        << 224 + (cp \div 4096), 128 + ((cp \div 64) % 64), 128 + (cp % 64) >>
    ELSE << 240 + (cp \div 262144), 128 + ((cp \div 4096) % 64),
            128 + ((cp \div 64) % 64), 128 + (cp % 64) >>

RECURSIVE TextEncode(_)
TextEncode(str) ==
    IF str = << >> THEN << >>
    ELSE Utf8Bytes(Head(str)) \o TextEncode(Tail(str))

\* continuation bytes a lead byte asks for (0: none, or not a lead byte)
Utf8Needed(c) ==
    IF c >= 194 /\ c <= 223 THEN 1
    ELSE IF c >= 224 /\ c <= 239 THEN 2
    ELSE IF c >= 240 /\ c <= 244 THEN 3
    ELSE 0

\* the range the first continuation byte must lie in
Utf8Lower(c) == IF c = 224 THEN 160 ELSE IF c = 240 THEN 144 ELSE 128
Utf8Upper(c) == IF c = 237 THEN 159 ELSE IF c = 244 THEN 143 ELSE 191

\* how many of the `need` continuation bytes after position i are there
RECURSIVE Utf8Run(_, _, _, _)
Utf8Run(b, i, k, need) ==
    IF k = need \/ i + k + 1 > Len(b) THEN k
    ELSE LET x == b[i + k + 1]
             lo == IF k = 0 THEN Utf8Lower(b[i]) ELSE 128
             hi == IF k = 0 THEN Utf8Upper(b[i]) ELSE 191
         IN IF x >= lo /\ x <= hi THEN Utf8Run(b, i, k + 1, need) ELSE k

Utf8Value(b, i, need) ==
    CASE need = 1 -> (b[i] - 192) * 64 + (b[i + 1] - 128)
      [] need = 2 -> (b[i] - 224) * 4096 + (b[i + 1] - 128) * 64 + (b[i + 2] - 128)
      [] need = 3 -> (b[i] - 240) * 262144 + (b[i + 1] - 128) * 4096
                       + (b[i + 2] - 128) * 64 + (b[i + 3] - 128)

RECURSIVE Utf8DecodeFrom(_, _)
Utf8DecodeFrom(b, i) ==
    IF i > Len(b) THEN << >>
    ELSE IF b[i] < 128 THEN << b[i] >> \o Utf8DecodeFrom(b, i + 1)
    ELSE LET need == Utf8Needed(b[i])
             got == IF need = 0 THEN 0 ELSE Utf8Run(b, i, 0, need)
         IN IF need > 0 /\ got = need
            THEN << Utf8Value(b, i, need) >> \o Utf8DecodeFrom(b, i + need + 1)
            ELSE << 65533 >> \o Utf8DecodeFrom(b, i + got + 1)

TextDecode(bytes) ==
    LET str == Utf8DecodeFrom(bytes, 1)
    IN IF str # << >> /\ Head(str) = 65279 THEN Tail(str) ELSE str

(***************************************************************************)
(* KeyDeriver: generateKey.  SHA-256 is the platform's; it is modelled as  *)
(* a deterministic 32-byte digest of the encoded password.                 *)
(***************************************************************************)
RECURSIVE DigestState(_, _)
DigestState(bytes, h) ==
    IF bytes = << >> THEN h
    ELSE DigestState(Tail(bytes), (h * 31 + Head(bytes) + 1) % 65521)

Digest(bytes) ==
    LET h == DigestState(bytes, 7)
    IN [j \in 1..32 |-> (h * j + j * j + (h \div 256)) % 256]

generateKey(pw) == Digest(TextEncode(pw))

(***************************************************************************)
(* StreamCipher: crypto.subtle.decrypt with AES-CTR, length 128.  The      *)
(* block cipher is the platform's; it is modelled as a deterministic       *)
(* function of the key and the 16-byte counter block.  Counter mode itself *)
(* is as specified: block j of the keystream is the cipher applied to the  *)
(* counter block plus j (mod 2^128), XORed onto the data.                  *)
(***************************************************************************)
RECURSIVE BlockMix(_, _, _)
BlockMix(k, block, i) ==
    IF i = 0 THEN 1
    ELSE (BlockMix(k, block, i - 1) * 131 + block[i] + k[i] + 3 * k[16 + i] + 1) % 65521

CipherBlock(k, block) ==
    LET s == BlockMix(k, block, 16)
    IN [j \in 1..16 |-> ((s \div (1 + (j % 3))) + 37 * j + k[j]) % 256]

\* the 128-bit big-endian counter block plus one, wrapping
RECURSIVE IncAt(_, _)
IncAt(block, i) ==
    IF i = 0 THEN block
    ELSE IF block[i] = 255 THEN IncAt([block EXCEPT ![i] = 0], i - 1)
    ELSE [block EXCEPT ![i] = block[i] + 1]

RECURSIVE CounterPlus(_, _)
CounterPlus(block, n) ==
    IF n = 0 THEN block ELSE CounterPlus(IncAt(block, 16), n - 1)

\* importKey takes a 256-bit key and AES-CTR a 16-byte counter; anything else
\* is rejected by the platform (no caller gets there)
AesCtr(k, counter, data) ==
    IF Len(k) = 32 /\ Len(counter) = 16
    THEN [p \in 1..Len(data) |->
            Xor8(data[p],
                 CipherBlock(k, CounterPlus(counter, (p - 1) \div 16))[((p - 1) % 16) + 1])]
    ELSE << >>

(***************************************************************************)
(* IEEE 754 double arithmetic on the counter (script.js:183-196).  A       *)
(* non-negative integer-valued double is written as its bits, most         *)
(* significant first; a double keeps 53 significant bits and an inexact    *)
(* sum is rounded to nearest, ties to even.                                *)
(***************************************************************************)
StripZeros(bits) ==
    LET ones == { i \in 1..Len(bits) : bits[i] = 1 }
    IN IF ones = {} THEN << >> ELSE SubSeq(bits, SetMin(ones), Len(bits))

ByteBits(b) == [i \in 1..8 |-> (b \div 2 ^ (8 - i)) % 2]

RECURSIVE BitsValue(_)
BitsValue(bits) ==
    IF bits = << >> THEN 0
    ELSE 2 * BitsValue(SubSeq(bits, 1, Len(bits) - 1)) + bits[Len(bits)]

Zeros(n) == [i \in 1..n |-> 0]

\* bits + 1 (the result may be one bit longer)
BitsInc(bits) ==
    LET zeros == { i \in 1..Len(bits) : bits[i] = 0 }
    IN IF zeros = {} THEN << 1 >> \o Zeros(Len(bits))
       ELSE LET z == SetMax(zeros)
            IN [i \in 1..Len(bits) |-> IF i < z THEN bits[i] ELSE IF i = z THEN 1 ELSE 0]

\* mutant: a 64-bit integer, nothing is rounded
RoundToDouble_Exact(bits) == StripZeros(bits)

RoundToDouble(bits) ==
    LET s == StripZeros(bits)
    IN IF Len(s) <= 53 THEN s
       ELSE LET m == SubSeq(s, 1, 53)
                r == SubSeq(s, 54, Len(s))
                restZero == \A i \in 2..Len(r) : r[i] = 0
                up == r[1] = 1 /\ (~restZero \/ m[53] = 1)
            IN (IF up THEN BitsInc(m) ELSE m) \o Zeros(Len(r))

\* counterValue = (counterValue * 256) + ivCounterBytes[i], i = 0..7: the
\* product is exact (a power of two), the sum is rounded; the value after the
\* first n bytes
RECURSIVE ReadCounter(_, _)
ReadCounter(ivCounterBytes, n) ==
    IF n = 0 THEN << >>
    ELSE RoundToDouble(ReadCounter(ivCounterBytes, n - 1) \o ByteBits(ivCounterBytes[n]))

\* counterValue & 0xFF: ToInt32 keeps the integer modulo 2^32, so the low
\* eight bits of the integer
LowByte(counterValue) ==
    BitsValue(Slice(counterValue, Len(counterValue) - Min(8, Len(counterValue)),
                    Len(counterValue)))

\* Math.floor(counterValue / 256): exact
FloorDiv256(counterValue) ==
    IF Len(counterValue) <= 8 THEN << >>
    ELSE SubSeq(counterValue, 1, Len(counterValue) - 8)

\* fullIV[8 + i] = counterValue & 0xFF; counterValue = floor(counterValue / 256),
\* for i = 7 down to 0; the result is fullIV[8..15]
RECURSIVE WriteCounter(_, _)
WriteCounter(counterValue, n) ==
    IF n = 0 THEN << >>
    ELSE Append(WriteCounter(FloorDiv256(counterValue), n - 1), LowByte(counterValue))

\* the counter block handed to the cipher, from the 16 bytes after the marker
fullIV(iv) ==
    LET ivPrefix == Slice(iv, 0, 8)
        ivCounterBytes == Slice(iv, 8, 16)
    IN ivPrefix \o WriteCounter(ReadCounter(ivCounterBytes, Len(ivCounterBytes)), 8)

(***************************************************************************)
(* ContainerParser: checkEncryptionMarker and decryptFileData.             *)
(***************************************************************************)
marker == << 69, 78, 67, 95 >>   \* "ENC_"

checkEncryptionMarker(fileData) ==
    LET header == Slice(fileData, 0, 4)
    IN EveryEquals(header, marker)

\* The errors thrown, by the order of the checks:
\*   "FileTooSmall"  'Файл слишком мал'                (script.js:152)
\*   "BadMarker"     'Неверный маркер шифрования'      (script.js:157)
\*   "NoContent"     'Нет зашифрованного содержимого'  (script.js:165)
\* `decrypted` tells whether crypto.subtle.decrypt was called.
Thrown(msg) ==
    [ok |-> FALSE, error |-> msg, decrypted |-> FALSE, counter |-> << >>, data |-> << >>]

\* mutant: a header-only container passes the size check and the empty
\* payload is not looked at
decryptFileData_NoEmptyCheck(encryptedData, k) ==
    IF Len(encryptedData) < 20 THEN Thrown("FileTooSmall")
    ELSE IF ~checkEncryptionMarker(encryptedData) THEN Thrown("BadMarker")
    ELSE LET iv == Slice(encryptedData, 4, 20)
             encryptedContent == SliceFrom(encryptedData, 20)
         IN [ok |-> TRUE, error |-> "", decrypted |-> TRUE, counter |-> fullIV(iv),
             data |-> AesCtr(k, fullIV(iv), encryptedContent)]

decryptFileData(encryptedData, k) ==
    IF Len(encryptedData) < 20 THEN Thrown("FileTooSmall")
    ELSE IF ~checkEncryptionMarker(encryptedData) THEN Thrown("BadMarker")
    ELSE LET iv == Slice(encryptedData, 4, 20)
             encryptedContent == SliceFrom(encryptedData, 20)
         IN IF Len(encryptedContent) = 0 THEN Thrown("NoContent")
            ELSE [ok |-> TRUE, error |-> "", decrypted |-> TRUE, counter |-> fullIV(iv),
                  data |-> AesCtr(k, fullIV(iv), encryptedContent)]

(***************************************************************************)
(* FilenameCodec: decryptFilename.                                         *)
(***************************************************************************)
\* a value no string equals: null
Null == << 1114112 >>

DefaultPassword ==     \* 'default_password'
    << 100, 101, 102, 97, 117, 108, 116, 95, 112, 97, 115, 115, 119, 111, 114, 100 >>

\* filename.replace(/\.[^/.]+$/, ""): the last '.' and what follows it are
\* removed when at least one character follows and none of them is '/'
StripExtension(filename) ==
    LET dots == { i \in 1..Len(filename) : filename[i] = 46 }
    IN IF dots = {} THEN filename
       ELSE LET d == SetMax(dots)
            IN IF d < Len(filename) /\ \A i \in (d + 1)..Len(filename) : filename[i] # 47
               THEN SubSeq(filename, 1, d - 1)
               ELSE filename

\* the value of a character of the base64 alphabet, 64 for any other
\* mutant: the URL-safe alphabet, with '-' and '_', is accepted as well
B64Value_UrlSafe(c) ==
    IF c >= 65 /\ c <= 90 THEN c - 65
    ELSE IF c >= 97 /\ c <= 122 THEN c - 71
    ELSE IF c >= 48 /\ c <= 57 THEN c + 4
    ELSE IF c = 43 \/ c = 45 THEN 62
    ELSE IF c = 47 \/ c = 95 THEN 63
    ELSE 64

B64Value(c) ==
    IF c >= 65 /\ c <= 90 THEN c - 65
    ELSE IF c >= 97 /\ c <= 122 THEN c - 71
    ELSE IF c >= 48 /\ c <= 57 THEN c + 4
    ELSE IF c = 43 THEN 62
    ELSE IF c = 47 THEN 63
    ELSE 64

IsAsciiSpace(c) == c \in { 9, 10, 12, 13, 32 }

NotAsciiSpace(c) == ~IsAsciiSpace(c)

\* atob (forgiving-base64 decode): ASCII whitespace is removed; when the
\* length is a multiple of 4, one or two trailing '=' are removed; a length
\* of 1 modulo 4 or a character outside the alphabet throws; the bit string
\* is cut into bytes and the 2 or 4 leftover bits are dropped.
atob(str) ==
    LET s1 == SelectSeq(str, NotAsciiSpace)
        n1 == Len(s1)
        pad == IF n1 % 4 = 0 /\ n1 > 0 /\ s1[n1] = 61
               THEN (IF s1[n1 - 1] = 61 THEN 2 ELSE 1)
               ELSE 0
        s2 == SubSeq(s1, 1, n1 - pad)
        n == Len(s2)
    IN IF n % 4 = 1 \/ \E i \in 1..n : B64Value(s2[i]) = 64
       THEN [ok |-> FALSE, data |-> << >>]
       ELSE [ok |-> TRUE,
             data |-> [k \in 1..((n * 6) \div 8) |->
                         LET q == ((8 * (k - 1)) \div 6) + 1
                             r == (8 * (k - 1)) % 6
                             a == B64Value(s2[q])
                             b == B64Value(s2[q + 1])
                         IN CASE r = 0 -> a * 4 + (b \div 16)
                              [] r = 2 -> (a % 16) * 16 + (b \div 4)
                              [] r = 4 -> (a % 4) * 64 + b]]

\* decryptedBytes[i] = encryptedData.charCodeAt(i) ^ passwordBytes[i % passwordBytes.length]
XorPassword(encryptedData, passwordBytes) ==
    [i \in 1..Len(encryptedData) |->
        Xor8(encryptedData[i], passwordBytes[((i - 1) % Len(passwordBytes)) + 1])]

\* decryptedString.split('|', 2): the string is cut at EVERY '|' and the
\* first two pieces are kept
SplitBar2(str) ==
    LET bars == { i \in 1..Len(str) : str[i] = 124 }
        b1 == SetMin(bars)
        later == { i \in bars : i > b1 }
        b2 == IF later = {} THEN Len(str) + 1 ELSE SetMin(later)
    IN << SubSeq(str, 1, b1 - 1), SubSeq(str, b1 + 1, b2 - 1) >>

IsDigits(str) == \A i \in 1..Len(str) : str[i] >= 48 /\ str[i] <= 57

StartsWith(str, prefix) == Len(str) >= Len(prefix) /\ SubSeq(str, 1, Len(prefix)) = prefix

HttpPrefix == << 104, 116, 116, 112, 58, 47, 47 >>         \* 'http://'
HttpsPrefix == << 104, 116, 116, 112, 115, 58, 47, 47 >>   \* 'https://'

\* mutant: 'https://' is always prepended
restoredLink_AlwaysPrefix(linkPart) ==
    HttpsPrefix \o [i \in 1..Len(linkPart) |-> IF linkPart[i] = 95 THEN 47 ELSE linkPart[i]]

\* linkPart.replace(/_/g, '/'), then 'https://' in front unless the result
\* starts with 'http://' or 'https://'
restoredLink(linkPart) ==
    LET replaced == [i \in 1..Len(linkPart) |-> IF linkPart[i] = 95 THEN 47 ELSE linkPart[i]]
    IN IF ~StartsWith(replaced, HttpPrefix) /\ ~StartsWith(replaced, HttpsPrefix)
       THEN HttpsPrefix \o replaced
       ELSE replaced

\* mutant: the name that decodes by neither scheme is reported as decoded
NameFailure_Success ==
    [dateTime |-> Null, link |-> Null, success |-> TRUE, scheme |-> "none"]

NameFailure == [dateTime |-> Null, link |-> Null, success |-> FALSE, scheme |-> "none"]

\* the YYYYMMDD_HHMMSS_link format (script.js:84-112); baseName[15] of a
\* 15-character name is undefined, which is not '_'
LegacyName(baseName) ==
    IF Len(baseName) >= 15 /\ baseName[9] = 95 /\ Len(baseName) >= 16 /\ baseName[16] = 95
    THEN LET datePart == Slice(baseName, 0, 8)
             timePart == Slice(baseName, 9, 15)
         IN IF IsDigits(datePart) /\ Len(datePart) = 8 /\ IsDigits(timePart) /\ Len(timePart) = 6
            THEN LET linkPart == SliceFrom(baseName, 16)
                 IN [dateTime |-> datePart \o << 95 >> \o timePart,
                     link |-> IF linkPart # << >> THEN restoredLink(linkPart) ELSE Null,
                     success |-> TRUE, scheme |-> "legacy"]
            ELSE NameFailure
    ELSE NameFailure

\* `scheme` is not a field of the object the code returns: it records which
\* return statement was taken (script.js:73, 99/105, 114)
decryptFilename(filename, pw) ==
    LET baseName == StripExtension(filename)
        encryptedData == atob(baseName)
        passwordBytes == TextEncode(IF pw # << >> THEN pw ELSE DefaultPassword)
        decryptedString == TextDecode(XorPassword(encryptedData.data, passwordBytes))
    IN IF encryptedData.ok /\ \E i \in 1..Len(decryptedString) : decryptedString[i] = 124
       THEN LET parts == SplitBar2(decryptedString)
            IN [dateTime |-> parts[1],
                link |-> IF parts[2] # << 110, 117, 108, 108 >> THEN parts[2] ELSE Null,
                success |-> TRUE, scheme |-> "primary"]
       ELSE LegacyName(baseName)

(***************************************************************************)
(* Idle values of the state a specification does not use.                  *)
(***************************************************************************)
NoCounts == [successCount |-> 0, errorCount |-> 0, encryptedCount |-> 0, unencryptedCount |-> 0]

\* no second call of decryptFiles has been made
NoSecond ==
    [pc |-> "idle", idx |-> 0, key |-> << >>, cur |-> << >>, counts |-> NoCounts,
     results |-> << >>, loopFiles |-> << >>, loopLive |-> FALSE]

BatchIdle ==
    /\ password = << >>
    /\ selectedFiles = << >>
    /\ decryptedFiles = << >>
    /\ extractedLinks = << >>
    /\ pc = "idle"
    /\ idx = 0
    /\ key = << >>
    /\ cur = << >>
    /\ counts = NoCounts
    /\ results = << >>
    /\ fileStatus = << >>
    /\ urlsCreated = 0
    /\ loopFiles = << >>
    /\ loopLive = FALSE
    /\ removalTimers = << >>
    /\ second = NoSecond

(***************************************************************************)
(* SpecSniff: detectFileType applied to a buffer.                          *)
(***************************************************************************)
\* The bytes tried at 1-based position i: every byte a signature has there,
\* and bytes no signature has.
SniffByteAt(i) ==
    CASE i = 1 -> {255, 137, 66, 82, 71, 0}
      [] i = 2 -> {216, 80, 77, 73, 255, 0}
      [] i = 3 -> {78, 70, 0}
      [] i = 4 -> {71, 70, 56, 0}
      [] OTHER -> {0, 255}

RECURSIVE SniffBuffers(_)
SniffBuffers(n) ==
    IF n = 0 THEN { << >> }
    ELSE { Append(s, b) : s \in SniffBuffers(n - 1), b \in SniffByteAt(n) }

SniffInputs == UNION { SniffBuffers(n) : n \in 0..MaxSniffLen }

InitSniff ==
    /\ phase = "input"
    /\ arg \in SniffInputs
    /\ ret = << >>
    /\ BatchIdle

Sniff ==
    /\ phase = "input"
    /\ phase' = "done"
    /\ ret' = [now |-> detectFileType(arg),
               old |-> detectFileType_part000(Slice(arg, 0, 4))]
    /\ UNCHANGED <<arg>>
    /\ UNCHANGED batchVars

NextSniff == Sniff

SpecSniff == InitSniff /\ [][NextSniff]_vars

\* What the specification asks of sniff(bytes): the first signature, in the
\* fixed order, that the buffer begins with.
SniffExpected(buf) ==
    LET hits == { k \in 1..Len(fileTypes) : IsPrefix(fileTypes[k].signature, buf) }
    IN IF hits = {} THEN UnknownType
       ELSE LET ft == fileTypes[SetMin(hits)]
            IN [ext |-> ft.ext, mime |-> ft.mime, type |-> ft.type, isValid |-> TRUE]

\* C5: for every buffer of at least 4 bytes detectFileType returns the entry
\* of the first signature (jpg, png, bmp, webp, gif order) that is a prefix of
\* the buffer, with isValid = TRUE, else bin / application/octet-stream /
\* Unknown / isValid = FALSE; the result is that of the buffer's first 4 bytes.
\* The earlier generation's detectFileType agrees on the extension.
C5_SniffFirstMatch ==
    (phase = "done" /\ Len(arg) >= 4) =>
        /\ ret.now = SniffExpected(arg)
        /\ ret.now = SniffExpected(SubSeq(arg, 1, 4))
        /\ ret.old.ext = ret.now.ext

C5_Witness ==
    /\ phase = "done"
    /\ Len(arg) > 4
    /\ ret.now.ext = "gif"
    /\ ret.now.isValid

\* C6: a buffer matches a signature only if it begins with all bytes of that
\* signature; the empty buffer and every 1-byte buffer are bin / not valid,
\* and a 2- or 3-byte buffer matches only FF D8 or 42 4D.
C6_ShortBufferNoMatch ==
    phase = "done" =>
        /\ ret.now = SniffExpected(arg)
        /\ (Len(arg) <= 1 => (ret.now.ext = "bin" /\ ~ret.now.isValid))
        /\ (Len(arg) \in {2, 3} => ret.now.ext \in {"jpg", "bmp", "bin"})

(***************************************************************************)
(* SpecContainer: decryptFileData applied to a buffer.  The buffer is      *)
(* either a container built the way the format is defined ("ENC_", nonce,  *)
(* big-endian counter, counter-mode ciphertext under generateKey(pw)), or  *)
(* a raw buffer of a given length with or without the marker.              *)
(***************************************************************************)
Passwords == { << 112 >>, << >> }      \* "p", ""

Nonces == { << 0, 0, 0, 0, 0, 0, 0, 0 >>, << 1, 2, 3, 4, 5, 6, 7, 255 >> }

\* 64-bit counters, big-endian: the two high and the two low bytes vary, the
\* middle four are all 00 or all FF; 00 20 00 00 00 00 00 00 is 2^53.
CounterEdgeBytes == { 0, 1, 32, 255 }

Counters ==
    { << a, b, m, m, m, m, c, d >> :
        a \in CounterEdgeBytes, b \in CounterEdgeBytes, m \in { 0, 255 },
        c \in { 0, 255 }, d \in { 0, 1, 255 } }

\* FF D8 FF E0 ... : the first bytes of a JPEG, then a pattern
PlainPattern == [i \in 1..(MaxPlainLen + 1) |->
                    CASE i = 1 -> 255 [] i = 2 -> 216 [] i = 3 -> 255 [] i = 4 -> 224
                      [] OTHER -> (i * 37) % 256]

Plaintexts == { SubSeq(PlainPattern, 1, n) : n \in { 1, 4, MaxPlainLen } }

\* the container as the format defines it (specification, section 6)
BuildContainer(pw, nonce, counter, plaintext) ==
    marker \o nonce \o counter \o AesCtr(generateKey(pw), nonce \o counter, plaintext)

RawHeads == { marker, << 69, 78, 67, 0 >> }

RawBuffers ==
    { head \o [i \in 1..n |-> fill] :
        head \in RawHeads, n \in 0..MaxRawTail, fill \in { 0, 255 } }

ContainerInputs ==
    { [built |-> TRUE, pw |-> pw, nonce |-> nonce, counter |-> counter,
       plaintext |-> plaintext, data |-> BuildContainer(pw, nonce, counter, plaintext)] :
        pw \in Passwords, nonce \in Nonces, counter \in Counters, plaintext \in Plaintexts }
    \cup
    { [built |-> FALSE, pw |-> << 112 >>, nonce |-> << >>, counter |-> << >>,
       plaintext |-> << >>, data |-> raw] : raw \in RawBuffers }

InitContainer ==
    /\ phase = "input"
    /\ arg \in ContainerInputs
    /\ ret = << >>
    /\ BatchIdle

Decrypt ==
    /\ phase = "input"
    /\ phase' = "done"
    /\ ret' = decryptFileData(arg.data, generateKey(arg.pw))
    /\ UNCHANGED <<arg>>
    /\ UNCHANGED batchVars

NextContainer == Decrypt

SpecContainer == InitContainer /\ [][NextContainer]_vars

\* C1: a container built from any password, nonce, 64-bit counter and
\* non-empty plaintext decrypts, under the key of the same password, to the
\* original plaintext.
C1_ContainerRoundTrip ==
    (phase = "done" /\ arg.built) => (ret.ok /\ ret.data = arg.plaintext)

\* C2: the counter block handed to the cipher equals bytes[4:20] of the
\* container byte for byte, on the whole unsigned 64-bit range.
C2_CounterBlockIdentity ==
    (phase = "done" /\ ret.decrypted) => ret.counter = Slice(arg.data, 4, 20)

Base64Alphabet ==
    << 65, 66, 67, 68, 69, 70, 71, 72, 73, 74, 75, 76, 77, 78, 79, 80, 81, 82, 83, 84,
       85, 86, 87, 88, 89, 90, 97, 98, 99, 100, 101, 102, 103, 104, 105, 106, 107, 108,
       109, 110, 111, 112, 113, 114, 115, 116, 117, 118, 119, 120, 121, 122, 48, 49, 50,
       51, 52, 53, 54, 55, 56, 57, 43, 47 >>

\* base64 with padding (RFC 4648), as the encoder of the format applies it
Base64Encode(bytes) ==
    LET n == Len(bytes)
        at(q) == IF q <= n THEN bytes[q] ELSE 0
        chars == (8 * n + 5) \div 6
    IN [c \in 1..(4 * ((n + 2) \div 3)) |->
          IF c > chars THEN 61
          ELSE LET q == ((6 * (c - 1)) \div 8) + 1
                   r == (6 * (c - 1)) % 8
                   v == CASE r = 0 -> at(q) \div 4
                          [] r = 6 -> (at(q) % 4) * 16 + (at(q + 1) \div 16)
                          [] r = 4 -> (at(q) % 16) * 4 + (at(q + 1) \div 64)
                          [] r = 2 -> at(q) % 64
               IN Base64Alphabet[v + 1]]

\* xor(utf8(text), repeat(password)), as the format defines it
RepeatKeyXor(bytes, keyBytes) ==
    [i \in 1..Len(bytes) |-> Xor8(bytes[i], keyBytes[((i - 1) % Len(keyBytes)) + 1])]

PngExt == << 46, 112, 110, 103 >>    \* ".png"

EncodeName(d, r, pw) ==
    Base64Encode(RepeatKeyXor(TextEncode(d \o << 124 >> \o r), TextEncode(pw))) \o PngExt

\* "p", "pw", "e-acute"
NamePasswords ==
    { << 112 >>,
      << 112, 119 >>,
      << 233 >> }

\* "20240102_030405", "", e-acute "1", U+FEFF "7"
DateTimes ==
    { << 50, 48, 50, 52, 48, 49, 48, 50, 95, 48, 51, 48, 52, 48, 53 >>,
      << >>,
      << 233, 49 >>,
      << 65279, 55 >> }

\* "https://example.com/x", "x", "null", "", "a|b", "|", "null|x", euro sign
Rests ==
    { << 104, 116, 116, 112, 115, 58, 47, 47, 101, 120, 97, 109, 112, 108, 101, 46, 99, 111, 109, 47, 120 >>,
      << 120 >>,
      << 110, 117, 108, 108 >>,
      << >>,
      << 97, 124, 98 >>,
      << 124 >>,
      << 110, 117, 108, 108, 124, 120 >>,
      << 8364 >> }

\* "20240102", "2024010a", ARABIC-INDIC DIGIT TWO "0240102"
LegacyDates ==
    { << 50, 48, 50, 52, 48, 49, 48, 50 >>,
      << 50, 48, 50, 52, 48, 49, 48, 97 >>,
      << 1634, 48, 50, 52, 48, 49, 48, 50 >> }

\* "030405", "03040x"
LegacyTimes ==
    { << 48, 51, 48, 52, 48, 53 >>,
      << 48, 51, 48, 52, 48, 120 >> }

\* "_", "-"
LegacySeps ==
    { << 95 >>,
      << 45 >> }

\* "", "example.com_x", "http:__a_b", "https:__a", "a_", "HTTP:__a"
LegacyRests ==
    { << >>,
      << 101, 120, 97, 109, 112, 108, 101, 46, 99, 111, 109, 95, 120 >>,
      << 104, 116, 116, 112, 58, 95, 95, 97, 95, 98 >>,
      << 104, 116, 116, 112, 115, 58, 95, 95, 97 >>,
      << 97, 95 >>,
      << 72, 84, 84, 80, 58, 95, 95, 97 >> }

LegacyStems ==
    LET full == { date \o s1 \o time \o s2 \o rest :
                    date \in LegacyDates, s1 \in LegacySeps, time \in LegacyTimes,
                    s2 \in LegacySeps, rest \in LegacyRests }
    IN full \cup { SubSeq(f, 1, n) : f \in full, n \in { 14, 15 } }

\* texts without '|': "20240102_030405", "x", ""
NoBarTexts ==
    { << 50, 48, 50, 52, 48, 49, 48, 50, 95, 48, 51, 48, 52, 48, 53 >>,
      << 120 >>,
      << >> }

\* stems that are base64: of a text without '|', or shaped like a legacy
\* name with a letter where the legacy format has '_'
\* ("20240102A030405Aabcd", "20240102A030405A")
Base64Stems ==
    { Base64Encode(RepeatKeyXor(TextEncode(t), << 112 >>)) : t \in NoBarTexts }
    \cup { << 50, 48, 50, 52, 48, 49, 48, 50, 65, 48, 51, 48, 52, 48, 53, 65, 97, 98, 99, 100 >>,
           << 50, 48, 50, 52, 48, 49, 48, 50, 65, 48, 51, 48, 52, 48, 53, 65 >> }

FilenameInputs ==
    { [kind |-> "primary", pw |-> pw, d |-> d, r |-> r, stem |-> << >>,
       filename |-> EncodeName(d, r, pw)] :
        pw \in NamePasswords, d \in DateTimes, r \in Rests }
    \cup
    { [kind |-> "legacy", pw |-> pw, d |-> << >>, r |-> << >>, stem |-> stem,
       filename |-> stem \o PngExt] :
        pw \in { << 112 >>, << >> }, stem \in LegacyStems }
    \cup
    { [kind |-> "base64", pw |-> pw, d |-> << >>, r |-> << >>, stem |-> stem,
       filename |-> stem \o PngExt] :
        pw \in { << 112 >>, << >> }, stem \in Base64Stems }

InitFilename ==
    /\ phase = "input"
    /\ arg \in FilenameInputs
    /\ ret = << >>
    /\ BatchIdle

DecodeName ==
    /\ phase = "input"
    /\ phase' = "done"
    /\ ret' = decryptFilename(arg.filename, arg.pw)
    /\ UNCHANGED <<arg>>
    /\ UNCHANGED batchVars

NextFilename == DecodeName

SpecFilename == InitFilename /\ [][NextFilename]_vars

HasBar(str) == \E i \in 1..Len(str) : str[i] = 124

StartsWithBOM(str) == str # << >> /\ str[1] = 65279

NullWord == << 110, 117, 108, 108 >>     \* "null"

\* C7: for every non-empty password p, every d without '|' and every
\* non-empty link l without '|' other than "null", the name
\* base64(xor(utf8(d|l), repeat(p))).ext decodes to dateTime = d, link = l,
\* success; and with the link encoded as "null" to link = null, dateTime = d.
C7_PrimaryRoundTrip ==
    (phase = "done" /\ arg.kind = "primary" /\ ~HasBar(arg.d)
        /\ arg.r # << >> /\ ~HasBar(arg.r)) =>
        /\ ret.success
        /\ ret.dateTime = arg.d
        /\ ret.link = (IF arg.r = NullWord THEN Null ELSE arg.r)

\* the round trip of the texts whose first character is not U+FEFF, the
\* byte order mark that TextDecoder drops
PrimaryRoundTrip_NoBOM ==
    (phase = "done" /\ arg.kind = "primary" /\ ~HasBar(arg.d) /\ ~StartsWithBOM(arg.d)
        /\ arg.r # << >> /\ ~HasBar(arg.r)) =>
        /\ ret.success
        /\ ret.dateTime = arg.d
        /\ ret.link = (IF arg.r = NullWord THEN Null ELSE arg.r)

\* C8: the decoded text d|r (d without '|', r any string) is split on the
\* first '|' only: dateTime = d and link = r, the whole remainder (null when
\* r is "null").  Stated for the texts that decode as they were encoded.
C8_SplitOnFirstBar ==
    (phase = "done" /\ arg.kind = "primary" /\ ~HasBar(arg.d) /\ ~StartsWithBOM(arg.d)) =>
        /\ ret.dateTime = arg.d
        /\ ret.link = (IF arg.r = NullWord THEN Null ELSE arg.r)

\* the legacy format, as the specification words it
LegacyFormat(stem) ==
    /\ Len(stem) >= 16
    /\ stem[9] = 95
    /\ stem[16] = 95
    /\ \A i \in 1..8 : stem[i] \in 48..57
    /\ \A i \in 10..15 : stem[i] \in 48..57

LegacyLink(stem) ==
    LET rest == SubSeq(stem, 17, Len(stem))
        slashed == [i \in 1..Len(rest) |-> IF rest[i] = 95 THEN 47 ELSE rest[i]]
    IN IF rest = << >> THEN Null
       ELSE IF IsPrefix(HttpPrefix, slashed) \/ IsPrefix(HttpsPrefix, slashed) THEN slashed
       ELSE HttpsPrefix \o slashed

\* C9: for any password a stem is accepted by the legacy scheme exactly when
\* it has 16 or more characters, '_' at positions 8 and 15 (0-based), 8 ASCII
\* digits before and 6 between; then dateTime = stem[0:8] "_" stem[9:15], and
\* link = null for an empty stem[16:], else stem[16:] with '_' replaced by '/'
\* and "https://" in front unless it then starts with http:// or https://.
C9_LegacyScheme ==
    (phase = "done" /\ arg.kind = "legacy") =>
        /\ (ret.scheme = "legacy") <=> LegacyFormat(arg.stem)
        /\ LegacyFormat(arg.stem) =>
              /\ ret.success
              /\ ret.dateTime = SubSeq(arg.stem, 1, 8) \o << 95 >> \o SubSeq(arg.stem, 10, 15)
              /\ ret.link = LegacyLink(arg.stem)
        /\ ~LegacyFormat(arg.stem) => ret = NameFailure

\* "20240102_030405_example.com_x.png" gives "https://example.com/x"
C9_Witness ==
    /\ phase = "done"
    /\ arg.kind = "legacy"
    /\ arg.pw = << >>
    /\ arg.filename = << 50, 48, 50, 52, 48, 49, 48, 50, 95,
                      48, 51, 48, 52, 48, 53, 95, 101, 120, 97, 109, 112, 108, 101,
                      46, 99, 111, 109, 95, 120, 46, 112, 110, 103 >>
    /\ ret.dateTime = << 50, 48, 50, 52, 48, 49, 48, 50, 95, 48, 51, 48, 52, 48, 53 >>
    /\ ret.link = << 104, 116, 116, 112, 115, 58, 47, 47,
                   101, 120, 97, 109, 112, 108, 101, 46, 99, 111, 109, 47, 120 >>

(***************************************************************************)
(* DecryptionPipeline: processFile and decryptFiles of script.js.  A file  *)
(* is [name, data].  Each action is the code between two suspensions: the  *)
(* awaits of generateKey (digest), file.arrayBuffer(), importKey and       *)
(* decrypt.  pc tells where the batch is suspended:                        *)
(*   "idle"        decryptFiles has not been called                        *)
(*   "keygen"      await generateKey(password)               script.js:725 *)
(*   "reading"     await file.arrayBuffer()                  script.js:623 *)
(*   "importing"   await crypto.subtle.importKey(...)        script.js:169 *)
(*   "decrypting"  await crypto.subtle.decrypt(...)          script.js:199 *)
(*   "returned"    processFile has returned                  script.js:738 *)
(*   "done"        decryptFiles has returned                               *)
(***************************************************************************)
ExtChars(ext) ==
    CASE ext = "jpg"  -> << 106, 112, 103 >>
      [] ext = "png"  -> << 112, 110, 103 >>
      [] ext = "bmp"  -> << 98, 109, 112 >>
      [] ext = "webp" -> << 119, 101, 98, 112 >>
      [] ext = "gif"  -> << 103, 105, 102 >>
      [] ext = "bin"  -> << 98, 105, 110 >>

\* dateTime.replace(/[:/\\*?"<>|]/g, '_')
Sanitize(str) ==
    [i \in 1..Len(str) |->
        IF str[i] \in { 58, 47, 92, 42, 63, 34, 60, 62, 124 } THEN 95 ELSE str[i]]

DecryptedSuffix == << 95, 100, 101, 99, 114, 121, 112, 116, 101, 100 >>   \* '_decrypted'

\* script.js:645-654; a dateTime that is null or '' is falsy
outputFileName(name, filenameInfo, fileType) ==
    IF filenameInfo.dateTime # Null /\ filenameInfo.dateTime # << >>
    THEN Sanitize(filenameInfo.dateTime) \o << 46 >> \o ExtChars(fileType.ext)
    ELSE StripExtension(name) \o DecryptedSuffix \o << 46 >> \o ExtChars(fileType.ext)

\* `${file.name}_${file.size}_${file.lastModified}`
generateFileId(file) == << file.name, Len(file.data), file.lastModified >>

\* updateFilesDisplay: the grid is emptied and one card per selected file is
\* created, each with the status 'ready'
updateFilesDisplay(files) ==
    [i \in 1..Len(files) |-> [id |-> generateFileId(files[i]), status |-> "ready"]]

\* mutant: the status is written on every card
updateFileStatus_EveryCard(cards, fileId, status) ==
    [i \in 1..Len(cards) |-> [cards[i] EXCEPT !.status = status]]

\* updateFileStatus: querySelector finds the first card with the id; without
\* such a card nothing happens
updateFileStatus(cards, fileId, status) ==
    LET found == { i \in 1..Len(cards) : cards[i].id = fileId }
    IN IF found = {} THEN cards
       ELSE [cards EXCEPT ![SetMin(found)].status = status]

\* passwordInput.value || 'default_password'
PasswordOrDefault == IF password # << >> THEN password ELSE DefaultPassword

\* the catch of processFile (script.js:677-684)
Failed(msg) ==
    [success |-> FALSE, error |-> msg, isEncrypted |-> FALSE,
     fileType |-> "", outputFileName |-> << >>]

\* if (filenameInfo.link): a link that is null or '' is falsy
LinkFound(filenameInfo, file) ==
    /\ filenameInfo.link # Null
    /\ filenameInfo.link # << >>

\* decryptFiles up to its first suspension (script.js:690-725); phase
\* records the call and arg the selection it found
decryptFiles_Begin ==
    /\ decryptedFiles' = << >>
    /\ extractedLinks' = << >>
    /\ pc' = IF Len(selectedFiles) = 0 THEN "done" ELSE "keygen"
    /\ phase' = "decryptFiles"
    /\ arg' = selectedFiles
    /\ UNCHANGED <<ret, password, selectedFiles, idx, key, cur, counts, results,
                   fileStatus, urlsCreated, loopFiles, loopLive, removalTimers, second>>

decryptFiles_Start ==
    /\ pc = "idle"
    /\ decryptFiles_Begin

\* processFile up to its first suspension, for the file at idx
\* (script.js:734-735 and 606-623)
BeginFile(files, i, shown) ==
    LET file == files[i]
        filenameInfo == decryptFilename(file.name, PasswordOrDefault)
    IN /\ fileStatus' = updateFileStatus(shown, generateFileId(file), "processing")
       /\ extractedLinks' =
            IF LinkFound(filenameInfo, file)
            THEN Append(extractedLinks, [filename |-> file.name,
                                         dateTime |-> filenameInfo.dateTime,
                                         link |-> filenameInfo.link])
            ELSE extractedLinks
       /\ cur' = [file |-> file, filenameInfo |-> filenameInfo, result |-> << >>]
       /\ idx' = i
       /\ pc' = "reading"

\* the end of decryptFiles (script.js:757-794)
EndBatch(shown) ==
    /\ fileStatus' = shown
    /\ cur' = << >>
    /\ pc' = "done"
    /\ UNCHANGED <<extractedLinks, idx>>

\* generateKey resolves: the loop starts (script.js:725-735)
KeyDerived ==
    /\ pc = "keygen"
    /\ key' = generateKey(PasswordOrDefault)
    /\ counts' = NoCounts
    /\ results' = << >>
    /\ loopFiles' = selectedFiles
    /\ loopLive' = TRUE
    /\ IF Len(selectedFiles) >= 1 THEN BeginFile(selectedFiles, 1, fileStatus)
       ELSE EndBatch(fileStatus)
    /\ UNCHANGED <<password, selectedFiles, decryptedFiles, urlsCreated, removalTimers, second>>
    /\ UNCHANGED harnessVars

\* the successful end of processFile (script.js:645-675); the entry of
\* decryptedFiles is { url, name }: data and mime are the Blob behind the url,
\* source is the id of the file it was made from
Succeed(decryptedData, fileType, isEncrypted) ==
    LET name == outputFileName(cur.file.name, cur.filenameInfo, fileType)
    IN /\ urlsCreated' = urlsCreated + 1
       /\ decryptedFiles' = Append(decryptedFiles,
                                   [url |-> urlsCreated + 1, name |-> name,
                                    data |-> decryptedData, mime |-> fileType.mime,
                                    source |-> generateFileId(cur.file)])
       /\ cur' = [cur EXCEPT !.result =
                    [success |-> TRUE, error |-> "", isEncrypted |-> isEncrypted,
                     fileType |-> fileType.type, outputFileName |-> name]]
       /\ pc' = "returned"

Fail(msg) ==
    /\ cur' = [cur EXCEPT !.result = Failed(msg)]
    /\ pc' = "returned"
    /\ UNCHANGED <<decryptedFiles, urlsCreated>>

\* file.arrayBuffer() resolves (script.js:623-643, 150-175)
FileRead ==
    /\ pc = "reading"
    /\ LET fileData == cur.file.data
       IN IF ~cur.file.readable
          THEN Fail("NotReadable")
          ELSE IF checkEncryptionMarker(fileData)
               THEN LET r == decryptFileData(fileData, key)
                    IN IF ~r.ok THEN Fail(r.error)
                       ELSE /\ pc' = "importing"
                            /\ UNCHANGED <<cur, decryptedFiles, urlsCreated>>
               ELSE Succeed(fileData, detectFileType(fileData), FALSE)
    /\ UNCHANGED <<password, selectedFiles, extractedLinks, idx, key, counts, results,
                   fileStatus, loopFiles, loopLive, removalTimers, second>>
    /\ UNCHANGED harnessVars

\* importKey resolves (script.js:169-207)
KeyImported ==
    /\ pc = "importing"
    /\ pc' = "decrypting"
    /\ UNCHANGED <<password, selectedFiles, decryptedFiles, extractedLinks, idx, key, cur,
                   counts, results, fileStatus, urlsCreated, loopFiles, loopLive,
                   removalTimers, second>>
    /\ UNCHANGED harnessVars

\* decrypt resolves (script.js:199-209, 633-638)
Decrypted ==
    /\ pc = "decrypting"
    /\ LET decryptedData == decryptFileData(cur.file.data, key).data
           fileType == detectFileType(decryptedData)
       IN IF ~fileType.isValid THEN Fail("WrongPasswordOrCorrupted")
          ELSE Succeed(decryptedData, fileType, TRUE)
    /\ UNCHANGED <<password, selectedFiles, extractedLinks, idx, key, counts, results,
                   fileStatus, loopFiles, loopLive, removalTimers, second>>
    /\ UNCHANGED harnessVars

\* mutant: a failed file is not counted
Tally_ErrorsUncounted(c, result) ==
    IF result.success
    THEN [c EXCEPT
            !.successCount = @ + 1,
            !.encryptedCount = IF result.isEncrypted THEN @ + 1 ELSE @,
            !.unencryptedCount = IF result.isEncrypted THEN @ ELSE @ + 1]
    ELSE c

\* the counters after a result of processFile (script.js:739-750)
Tally(c, result) ==
    IF result.success
    THEN [c EXCEPT
            !.successCount = @ + 1,
            !.encryptedCount = IF result.isEncrypted THEN @ + 1 ELSE @,
            !.unencryptedCount = IF result.isEncrypted THEN @ ELSE @ + 1]
    ELSE [c EXCEPT !.errorCount = @ + 1]

\* processFile has returned: the counters, the card, and the next file up to
\* its first suspension, or the end of the batch (script.js:738-758)
FileDone ==
    /\ pc = "returned"
    /\ results' = Append(results, cur.result)
    /\ counts' = Tally(counts, cur.result)
    /\ LET shown == updateFileStatus(fileStatus, generateFileId(cur.file),
                                      IF cur.result.success THEN "success" ELSE "error")
       IN IF idx < Len(loopFiles)
          THEN BeginFile(loopFiles, idx + 1, shown)
          ELSE EndBatch(shown)
    /\ UNCHANGED <<password, selectedFiles, decryptedFiles, key, urlsCreated, loopFiles,
                   loopLive, removalTimers, second>>
    /\ UNCHANGED harnessVars

(***************************************************************************)
(* SpecBatch: one call of decryptFiles over a selection of at most         *)
(* MaxFiles files, run to its end with nothing else scheduled in between.  *)
(***************************************************************************)
JpegBytes == << 255, 216, 255, 224, 0, 16 >>

BatchPassword == << 112 >>

BatchDateTime == << 50, 48, 50, 52, 48, 49, 48, 50, 95, 48, 51, 48, 52, 48, 53 >>

BatchLink == << 104, 116, 116, 112, 115, 58, 47, 47, 97, 46, 98, 47, 120 >>

\* names: date and link, date and empty link, date and the word null, a
\* legacy name, a name of neither scheme
LinkName == EncodeName(BatchDateTime, BatchLink, BatchPassword)
EmptyLinkName == EncodeName(BatchDateTime, << >>, BatchPassword)
NullLinkName == EncodeName(BatchDateTime, NullWord, BatchPassword)
LegacyFileName ==
    BatchDateTime \o << 95, 97, 46, 98, 95, 120 >> \o PngExt
PlainName == << 112, 104, 111, 116, 111 >> \o PngExt

\* names of the primary scheme with the empty dateTime, and with the
\* dateTime "2024:01/02"
EmptyDateName == EncodeName(<< >>, BatchLink, BatchPassword)
ColonDateName ==
    EncodeName(<< 50, 48, 50, 52, 58, 48, 49, 47, 48, 50 >>, BatchLink, BatchPassword)

BatchNonce == << 1, 2, 3, 4, 5, 6, 7, 8 >>

BatchCounter == << 0, 0, 0, 0, 0, 0, 0, 7 >>

GoodContainer == BuildContainer(BatchPassword, BatchNonce, BatchCounter, JpegBytes)

OtherKeyContainer == BuildContainer(<< 113 >>, BatchNonce, BatchCounter, JpegBytes)

\* a container of the single byte FF
OneByteContainer == BuildContainer(BatchPassword, BatchNonce, BatchCounter, << 255 >>)

\* a file as the page sees it: name, content (size is its length),
\* lastModified, and whether file.arrayBuffer() can still read it
File(name, data, lastModified, readable) ==
    [name |-> name, data |-> data, lastModified |-> lastModified, readable |-> readable]

Files ==
    { File(LinkName, GoodContainer, 1, TRUE),
      File(LinkName, OtherKeyContainer, 2, TRUE),
      File(EmptyLinkName, JpegBytes, 1, TRUE),
      File(NullLinkName, marker \o << 1, 2, 3, 4, 5, 6 >>, 1, TRUE),
      File(LegacyFileName, << >>, 1, TRUE),
      File(PlainName, << 69, 78, 67 >>, 1, TRUE),
      File(PlainName, << 1, 2, 3 >>, 2, TRUE),
      File(LegacyFileName, JpegBytes, 1, FALSE),
      File(PlainName, GoodContainer, 1, TRUE),
      File(LegacyFileName, OtherKeyContainer, 1, TRUE),
      File(PlainName, JpegBytes, 1, TRUE),
      File(EmptyDateName, << 255 >>, 1, TRUE),
      File(ColonDateName, OneByteContainer, 1, TRUE) }

\* selections addFiles can have built: no two files with the same id
Selections ==
    { sel \in UNION { [1..n -> Files] : n \in 0..MaxFiles } :
        \A i, j \in DOMAIN sel : i # j => generateFileId(sel[i]) # generateFileId(sel[j]) }

InitBatch ==
    /\ phase = "none"
    /\ arg = << >>
    /\ ret = << >>
    /\ password \in { BatchPassword, << >> }
    /\ selectedFiles \in Selections
    /\ fileStatus = updateFilesDisplay(selectedFiles)
    /\ decryptedFiles = << >>
    /\ extractedLinks = << >>
    /\ pc = "idle"
    /\ idx = 0
    /\ key = << >>
    /\ cur = << >>
    /\ counts = NoCounts
    /\ results = << >>
    /\ urlsCreated = 0
    /\ loopFiles = << >>
    /\ loopLive = FALSE
    /\ removalTimers = << >>
    /\ second = NoSecond

NextBatch ==
    \/ decryptFiles_Start
    \/ KeyDerived
    \/ FileRead
    \/ KeyImported
    \/ Decrypted
    \/ FileDone

SpecBatch == InitBatch /\ [][NextBatch]_vars

\* C4: every file shorter than 4 bytes is classified as not carrying the
\* marker and comes out of the batch as a successful plaintext passthrough
\* whose output bytes are the input bytes.
C4_ShortFilePassthrough ==
    \A i \in 1..Len(results) :
        Len(selectedFiles[i].data) < 4 =>
            /\ ~checkEncryptionMarker(selectedFiles[i].data)
            /\ results[i].success
            /\ ~results[i].isEncrypted

\* the (filename, dateTime, link) entries of the files whose name decodes to
\* a link that is not null, in selection order
LinksOf(files) ==
    LET info(i) == decryptFilename(files[i].name, PasswordOrDefault)
        kept == { i \in 1..Len(files) : info(i).link # Null }
        nth(k) == CHOOSE i \in kept : Cardinality({ j \in kept : j < i }) = k - 1
    IN [k \in 1..Cardinality(kept) |->
          [filename |-> files[nth(k)].name,
           dateTime |-> info(nth(k)).dateTime,
           link |-> info(nth(k)).link]]

\* C10: when the batch has ended, extractedLinks holds one entry for every
\* file whose name decoded to a non-null link, the empty string included,
\* whatever became of the file's content.
C10_EveryNonNullLinkRecorded ==
    pc = "done" => extractedLinks = LinksOf(selectedFiles)

\* the status on the card of the file with this id
StatusOf(fileId) ==
    LET found == { i \in 1..Len(fileStatus) : fileStatus[i].id = fileId }
    IN IF found = {} THEN "none" ELSE fileStatus[SetMin(found)].status

FinalStatus == { "success", "error" }

\* C11: a file-local error never aborts the batch: processFile returns one
\* result per file in order, each file's card shows that result as its final
\* status, and when the batch of N files has ended there are N results,
\* successCount + errorCount = N and encryptedCount + unencryptedCount =
\* successCount.
C11_ErrorsNeverAbort ==
    /\ Len(results) <= Len(selectedFiles)
    /\ \A i \in 1..Len(results) :
          StatusOf(generateFileId(selectedFiles[i])) =
              (IF results[i].success THEN "success" ELSE "error")
    /\ pc = "done" =>
          /\ Len(results) = Len(selectedFiles)
          /\ counts.successCount + counts.errorCount = Len(selectedFiles)
          /\ counts.encryptedCount + counts.unencryptedCount = counts.successCount
          /\ counts.successCount = Cardinality({ i \in 1..Len(results) : results[i].success })

\* a batch whose first file failed and whose second file succeeded
C11_Witness ==
    /\ pc = "done"
    /\ Len(results) = 2
    /\ ~results[1].success
    /\ results[2].success
    /\ counts.errorCount = 1
    /\ counts.successCount = 1

\* the bytes of the download made for the i-th processed file (it succeeded)
OutputOf(i) ==
    decryptedFiles[Cardinality({ j \in 1..i : results[j].success })].data

\* the primary scheme applies to a name: its stem is base64 and the text it
\* decodes to has a '|'
PrimaryApplies(name) ==
    LET decoded == atob(StripExtension(name))
    IN /\ decoded.ok
       /\ HasBar(TextDecode(XorPassword(decoded.data, TextEncode(PasswordOrDefault))))

\* C12: the name of a file has no part in what becomes of its content: two
\* files of one batch with the same content (and readability) end with the
\* same success flag, isEncrypted flag, detected type and output bytes
\* whatever their names decode to; and a name to which neither scheme
\* applies decodes, without raising, to success = false, dateTime = null,
\* link = null.
C12_NameNeverAffectsContent ==
    /\ \A i, j \in 1..Len(results) :
          (/\ selectedFiles[i].data = selectedFiles[j].data
           /\ selectedFiles[i].readable = selectedFiles[j].readable) =>
              /\ results[i].success = results[j].success
              /\ results[i].isEncrypted = results[j].isEncrypted
              /\ results[i].fileType = results[j].fileType
              /\ results[i].success => OutputOf(i) = OutputOf(j)
    /\ (cur # << >> /\ ~PrimaryApplies(cur.file.name)
           /\ ~LegacyFormat(StripExtension(cur.file.name))) =>
          /\ cur.filenameInfo.success = FALSE
          /\ cur.filenameInfo.dateTime = Null
          /\ cur.filenameInfo.link = Null

\* the same container under a name of the primary scheme and under a name of
\* neither scheme, both decrypted
C12_Witness ==
    /\ pc = "done"
    /\ Len(results) = 2
    /\ selectedFiles[1].data = GoodContainer
    /\ selectedFiles[2].data = GoodContainer
    /\ selectedFiles[1].name = LinkName
    /\ selectedFiles[2].name = PlainName
    /\ password = BatchPassword
    /\ results[1].success
    /\ results[1].isEncrypted
    /\ results[2].success

\* a buffer carries the magic marker: it has 4 bytes or more and begins
\* with 45 4E 43 5F
CarriesMarker(bytes) == Len(bytes) >= 4 /\ SubSeq(bytes, 1, 4) = marker

\* a buffer begins with one of the known signatures
BeginsWithSignature(bytes) ==
    \E i \in 1..Len(fileTypes) : IsPrefix(fileTypes[i].signature, bytes)

EndsWith(str, suffix) ==
    /\ Len(str) >= Len(suffix)
    /\ SubSeq(str, Len(str) - Len(suffix) + 1, Len(str)) = suffix

\* C13: every (readable) file that does not carry the magic marker passes
\* through: success, not encrypted, output bytes equal to the input bytes,
\* ext bin when its bytes begin with no known signature, and when the batch
\* has ended it is among the files counted as unencrypted.
C13_PlaintextPassthrough ==
    /\ \A i \in 1..Len(results) :
          (selectedFiles[i].readable /\ ~CarriesMarker(selectedFiles[i].data)) =>
              /\ results[i].success
              /\ ~results[i].isEncrypted
              /\ OutputOf(i) = selectedFiles[i].data
              /\ ~BeginsWithSignature(selectedFiles[i].data) =>
                    EndsWith(results[i].outputFileName, << 46 >> \o ExtChars("bin"))
    /\ pc = "done" =>
          counts.unencryptedCount =
              Cardinality({ i \in 1..Len(selectedFiles) :
                              /\ selectedFiles[i].readable
                              /\ ~CarriesMarker(selectedFiles[i].data) })

ForbiddenChars == { 58, 47, 92, 42, 63, 34, 60, 62, 124 }    \* : / \ * ? " < > |

\* C14: the output name of every successfully processed file is
\* sanitize(dateTime) "." ext when the name decoded to a dateTime (any string
\* that is not null, the empty string included), the part before the
\* extension then having none of : / \ * ? " < > |, and otherwise
\* stem "_decrypted." ext; ext is the sniffed extension of the output bytes.
C14_OutputNameRule ==
    \A i \in 1..Len(results) :
        results[i].success =>
            LET info == decryptFilename(selectedFiles[i].name, PasswordOrDefault)
                dotExt == << 46 >> \o ExtChars(detectFileType(OutputOf(i)).ext)
                out == results[i].outputFileName
            IN IF info.dateTime # Null
               THEN /\ Len(out) = Len(info.dateTime) + Len(dotExt)
                    /\ EndsWith(out, dotExt)
                    /\ \A k \in 1..Len(info.dateTime) :
                          /\ out[k] \notin ForbiddenChars
                          /\ out[k] = (IF info.dateTime[k] \in ForbiddenChars
                                       THEN 95 ELSE info.dateTime[k])
               ELSE out = StripExtension(selectedFiles[i].name) \o DecryptedSuffix \o dotExt

\* the positions in selectedFiles of the sources of decryptedFiles
SourceIndex(k) ==
    CHOOSE i \in 1..Len(selectedFiles) :
        generateFileId(selectedFiles[i]) = decryptedFiles[k].source

CardSteps == { << "ready", "processing" >>, << "processing", "success" >>,
               << "processing", "error" >> }

\* C15: one batch is strictly sequential in input order: at most one card
\* is 'processing'; when the card of file i is, every file before it has its
\* final status and every file after it is still ready; a card only ever
\* goes ready -> processing -> success or error; and the entries of
\* decryptedFiles are in the order of their source files in selectedFiles.
C15_StrictlySequential ==
    /\ [](/\ Cardinality({ i \in 1..Len(fileStatus) :
                             fileStatus[i].status = "processing" }) <= 1
          /\ \A i \in 1..Len(fileStatus) :
                fileStatus[i].status = "processing" =>
                    /\ \A j \in 1..(i - 1) : fileStatus[j].status \in FinalStatus
                    /\ \A j \in (i + 1)..Len(fileStatus) : fileStatus[j].status = "ready"
          /\ \A k, l \in 1..Len(decryptedFiles) :
                k < l => SourceIndex(k) < SourceIndex(l))
    /\ [][\A i \in 1..Len(fileStatus) :
             \/ fileStatus'[i] = fileStatus[i]
             \/ << fileStatus[i].status, fileStatus'[i].status >> \in CardSteps]_vars

\* two files done, the second made after the first
C15_Witness ==
    /\ pc = "done"
    /\ Len(decryptedFiles) = 2
    /\ Len(results) = 2
    /\ fileStatus[1].status = "success"
    /\ fileStatus[2].status = "success"
    /\ decryptedFiles[1].source = generateFileId(selectedFiles[1])
    /\ decryptedFiles[2].source = generateFileId(selectedFiles[2])

\* the text the primary scheme decodes a stem to, for the stems that are base64
PrimaryText(stem, pw) ==
    TextDecode(XorPassword(atob(stem).data,
                           TextEncode(IF pw # << >> THEN pw ELSE DefaultPassword)))

\* C19: no stem is taken by both schemes: a stem with '_' at positions 8 and
\* 15, and so every stem of the legacy format, is rejected by the base64
\* decoding and is not interpreted by the primary scheme; a stem that
\* base64-decodes is never accepted by the legacy scheme; and when the text it
\* decodes to has no '|' the result is dateTime = null, link = null,
\* success = false.
C19_SchemesDisjoint ==
    phase = "done" =>
        LET stem == StripExtension(arg.filename)
            b64 == atob(stem).ok
        IN /\ (Len(stem) >= 16 /\ stem[9] = 95 /\ stem[16] = 95) => ~b64
           /\ LegacyFormat(stem) => (~b64 /\ ret.scheme = "legacy")
           /\ b64 => ret.scheme # "legacy"
           /\ (b64 /\ ~HasBar(PrimaryText(stem, arg.pw))) =>
                 /\ ret.dateTime = Null
                 /\ ret.link = Null
                 /\ ret.success = FALSE

\* "20240102A030405Aabcd" is base64, decodes to a text without '|', and is
\* taken by neither scheme
C19_Witness ==
    /\ phase = "done"
    /\ arg.kind = "base64"
    /\ Len(arg.stem) = 20
    /\ atob(arg.stem).ok
    /\ ~HasBar(PrimaryText(arg.stem, arg.pw))
    /\ ret.success = FALSE

\* a marker-bearing container that parses correctly: readable, the marker,
\* 16 bytes of nonce and counter, and at least one byte of content
ParsesCorrectly(file) ==
    file.readable /\ CarriesMarker(file.data) /\ Len(file.data) > 20

\* C18: for a marker-bearing container that parses correctly, success is
\* reported only if the decrypted bytes begin with a known signature; when
\* they sniff as not valid the file ends with the error 'wrong password or
\* corrupted', no entry of decryptedFiles and no object URL is made for it,
\* and it is counted neither as a success nor as encrypted.
C18_SuccessOnlyForKnownSignature ==
    /\ \A i \in 1..Len(results) :
          ParsesCorrectly(selectedFiles[i]) =>
              LET plain == decryptFileData(selectedFiles[i].data, key).data
              IN /\ results[i].success => BeginsWithSignature(plain)
                 /\ ~detectFileType(plain).isValid =>
                       /\ ~results[i].success
                       /\ results[i].error = "WrongPasswordOrCorrupted"
                       /\ \A k \in 1..Len(decryptedFiles) :
                             decryptedFiles[k].source # generateFileId(selectedFiles[i])
    /\ urlsCreated = Len(decryptedFiles)
    /\ pc = "done" =>
          /\ counts.encryptedCount =
                Cardinality({ i \in 1..Len(results) :
                                /\ ParsesCorrectly(selectedFiles[i])
                                /\ detectFileType(decryptFileData(selectedFiles[i].data,
                                                                  key).data).isValid })
          /\ counts.successCount =
                Cardinality({ i \in 1..Len(results) : results[i].success })

(***************************************************************************)
(* The strict legacy pipeline: processFile and createDownloadLink of       *)
(* src/unnamed/part_000.  The file is the raw 16-byte counter block        *)
(* followed by the ciphertext.                                             *)
(***************************************************************************)
LegacyFailed(msg) ==
    [success |-> FALSE, error |-> msg, fileType |-> "", extension |-> "", data |-> << >>]

\* processFile of part_000:388-442; data is the decryptedData handed to
\* createDownloadLink
processFile_part000(file, k) ==
    LET encryptedData == file.data
        iv == Slice(encryptedData, 0, 16)
        encryptedContent == SliceFrom(encryptedData, 16)
        decryptedData == AesCtr(k, iv, encryptedContent)
        fileInfo == detectFileType_part000(Slice(decryptedData, 0, 4))
    IN IF ~file.readable THEN LegacyFailed("Corrupted")
       ELSE IF Len(encryptedData) < 16 THEN LegacyFailed("FileTooSmall")
       ELSE IF Len(encryptedContent) = 0 THEN LegacyFailed("EmptyFile")
       ELSE IF fileInfo.type = "Neizvestnyj" THEN LegacyFailed("NotImageOrWrongPassword")
       ELSE [success |-> TRUE, error |-> "", fileType |-> fileInfo.type,
             extension |-> fileInfo.ext, data |-> decryptedData]

\* createDownloadLink of part_000:477-496
createDownloadLink(entries, url, originalFile, decryptedData, fileInfoExt) ==
    Append(entries,
           [url |-> url,
            name |-> StripExtension(originalFile.name) \o DecryptedSuffix \o << 46 >>
                       \o ExtChars(fileInfoExt),
            data |-> decryptedData,
            mime |-> "image/" \o fileInfoExt,
            source |-> generateFileId(originalFile)])

(***************************************************************************)
(* SpecLegacy: processFile of part_000 applied to one file.                *)
(***************************************************************************)
LegacyBlocks ==
    { [i \in 1..16 |-> 0],
      [i \in 1..16 |-> 255],
      << 1, 2, 3, 4, 5, 6, 7, 8, 0, 32, 0, 0, 0, 0, 0, 1 >>,
      << 1, 2, 3, 4, 5, 6, 7, 8, 0, 0, 0, 0, 0, 0, 0, 255 >> }

\* JPEG, PNG, BMP, GIF and WEBP beginnings, a text, 17 bytes of JPEG, and
\* the short contents FF, 89 50, 42, 00
LegacyPlaintexts ==
    { JpegBytes,
      << 137, 80, 78, 71, 13, 10 >>,
      << 66, 77, 0, 0 >>,
      << 71, 73, 70, 56, 57, 97 >>,
      << 82, 73, 70, 70, 0 >>,
      << 104, 101, 108, 108, 111 >>,
      SubSeq(PlainPattern, 1, 17),
      << 255 >>,
      << 137, 80 >>,
      << 66 >>,
      << 0 >> }

LegacyRaw == { [i \in 1..n |-> (i * 29) % 256] : n \in 0..MaxLegacyRaw }

LegacyInputs ==
    { [built |-> TRUE, pw |-> << 112 >>, plaintext |-> plaintext,
       file |-> File(PlainName, block \o AesCtr(generateKey(encPw), block, plaintext),
                     1, TRUE)] :
        encPw \in { << 112 >>, << 113 >> }, block \in LegacyBlocks,
        plaintext \in LegacyPlaintexts }
    \cup
    { [built |-> FALSE, pw |-> << 112 >>, plaintext |-> << >>,
       file |-> File(PlainName, raw, 1, readable)] :
        raw \in LegacyRaw, readable \in BOOLEAN }

InitLegacy ==
    /\ phase = "input"
    /\ arg \in LegacyInputs
    /\ ret = << >>
    /\ BatchIdle

LegacyProcess ==
    /\ phase = "input"
    /\ phase' = "done"
    /\ LET result == processFile_part000(arg.file, generateKey(arg.pw))
       IN /\ ret' = result
          /\ IF result.success
             THEN /\ urlsCreated' = urlsCreated + 1
                  /\ decryptedFiles' =
                       createDownloadLink(decryptedFiles, urlsCreated + 1, arg.file,
                                          result.data, result.extension)
             ELSE UNCHANGED <<decryptedFiles, urlsCreated>>
    /\ UNCHANGED <<arg, password, selectedFiles, extractedLinks, pc, idx, key, cur, counts,
                   results, fileStatus, loopFiles, loopLive, removalTimers, second>>

NextLegacy == LegacyProcess

SpecLegacy == InitLegacy /\ [][NextLegacy]_vars

BeginsWithLegacySignature(bytes) ==
    \E i \in 1..Len(validHeaders) : IsPrefix(validHeaders[i].bytes, bytes)

\* C17: in the strict legacy pipeline a file shorter than 16 bytes fails as
\* too small and a file of 16 bytes as empty; otherwise bytes[16:] is
\* decrypted with bytes[0:16] unchanged as the counter block, and the file is
\* successful, with one entry added to decryptedFiles, exactly when the
\* decrypted bytes begin with a known signature; otherwise it fails and no
\* entry is added.
C17_StrictLegacyPipeline ==
    (phase = "done" /\ arg.file.readable) =>
        LET bytes == arg.file.data
            plain == AesCtr(generateKey(arg.pw), SubSeq(bytes, 1, 16),
                            SubSeq(bytes, 17, Len(bytes)))
        IN /\ Len(bytes) < 16 => (~ret.success /\ ret.error = "FileTooSmall")
           /\ Len(bytes) = 16 => (~ret.success /\ ret.error = "EmptyFile")
           /\ Len(bytes) > 16 =>
                 /\ ret.success <=> BeginsWithLegacySignature(plain)
                 /\ ret.success => decryptedFiles[1].data = plain
                 /\ ~ret.success => ret.error = "NotImageOrWrongPassword"
           /\ Len(decryptedFiles) = (IF ret.success THEN 1 ELSE 0)

(***************************************************************************)
(* The selection: addFiles, removeFile and clearAllFiles of script.js.     *)
(* selectedFiles.push changes the array in place, so a for-of loop that is *)
(* iterating it sees the new file; filter and [] make a new array, and the *)
(* loop stays on the old one.  In a session phase records the last         *)
(* handler the user started.                                               *)
(***************************************************************************)
Ids(files) == { generateFileId(files[i]) : i \in 1..Len(files) }

\* mutant: the file is pushed without looking for its id
PushNew_Unchecked(files, newFile) == Append(files, newFile)

\* the body of the forEach of addFiles (script.js:405-415)
PushNew(files, newFile) ==
    IF \E i \in 1..Len(files) : generateFileId(files[i]) = generateFileId(newFile)
    THEN files
    ELSE Append(files, newFile)

RECURSIVE PushAll(_, _, _)
PushAll(files, newFiles, n) ==
    IF n = 0 THEN files
    ELSE PushNew(PushAll(files, newFiles, n - 1), newFiles[n])

\* script.js:402-418
addFiles(files) ==
    /\ selectedFiles' = PushAll(selectedFiles, files, Len(files))
    /\ fileStatus' = updateFilesDisplay(selectedFiles')
    /\ loopFiles' = IF loopLive THEN selectedFiles' ELSE loopFiles
    /\ second' = IF second.loopLive THEN [second EXCEPT !.loopFiles = selectedFiles']
                 ELSE second
    /\ phase' = "addFiles"
    /\ UNCHANGED <<arg, ret, password, decryptedFiles, extractedLinks, pc, idx, key, cur, counts,
                   results, urlsCreated, loopLive, removalTimers>>

\* removeFile up to its timeout (script.js:364-368): the card is there, the
\* removal is scheduled 300 ms ahead
removeFile(fileId) ==
    /\ \E i \in 1..Len(fileStatus) : fileStatus[i].id = fileId
    /\ Len(removalTimers) < MaxTimers
    /\ removalTimers' = Append(removalTimers, fileId)
    /\ phase' = "removeFile"
    /\ UNCHANGED <<arg, ret, password, selectedFiles, decryptedFiles, extractedLinks, pc, idx, key,
                   cur, counts, results, fileStatus, urlsCreated, loopFiles, loopLive, second>>

\* the timeout of removeFile (script.js:368-373); timers of one delay fire
\* in the order they were set
removeFile_Timeout ==
    /\ removalTimers # << >>
    /\ LET fileId == Head(removalTimers)
           keep(file) == generateFileId(file) # fileId
       IN selectedFiles' = SelectSeq(selectedFiles, keep)
    /\ fileStatus' = updateFilesDisplay(selectedFiles')
    /\ loopLive' = FALSE
    /\ second' = [second EXCEPT !.loopLive = FALSE]
    /\ removalTimers' = Tail(removalTimers)
    /\ phase' = "removeFile_Timeout"
    /\ UNCHANGED <<arg, ret, password, decryptedFiles, extractedLinks, pc, idx, key, cur, counts,
                   results, urlsCreated, loopFiles>>

\* script.js:380-396
clearAllFiles ==
    /\ selectedFiles' = << >>
    /\ decryptedFiles' = << >>
    /\ extractedLinks' = << >>
    /\ fileStatus' = updateFilesDisplay(selectedFiles')
    /\ loopLive' = FALSE
    /\ second' = [second EXCEPT !.loopLive = FALSE]
    /\ phase' = "clearAllFiles"
    /\ UNCHANGED <<arg, ret, password, pc, idx, key, cur, counts, results, urlsCreated, loopFiles,
                   removalTimers>>

\* decryptFiles called again after a batch has ended
decryptFiles_Again ==
    /\ pc = "done"
    /\ urlsCreated < MaxUrls
    /\ decryptFiles_Begin

\* the object URLs that are live, created and not released: the source has
\* no call of URL.revokeObjectURL
LiveHandles == 1..urlsCreated

\* the positions at which a call of decryptFiles is suspended at an await
AtAwait == { "keygen", "reading", "importing", "decrypting" }

\* a call that is at "returned" resumes in a microtask, before any event,
\* timeout or other await is served
NoMicrotask == pc # "returned" /\ second.pc # "returned"

(***************************************************************************)
(* SpecSession: the selection handlers, and decryptFiles called when no    *)
(* earlier call of it is suspended, in any interleaving.                   *)
(***************************************************************************)
\* a plain image and a container
SessionFiles ==
    { File(PlainName, JpegBytes, 1, TRUE),
      File(LinkName, GoodContainer, 1, TRUE) }

AddInputs == UNION { [1..n -> SessionFiles] : n \in 1..MaxAdd }

InitSession ==
    /\ phase = "none"
    /\ arg = << >>
    /\ ret = << >>
    /\ password = BatchPassword
    /\ selectedFiles = << >>
    /\ fileStatus = << >>
    /\ decryptedFiles = << >>
    /\ extractedLinks = << >>
    /\ pc = "idle"
    /\ idx = 0
    /\ key = << >>
    /\ cur = << >>
    /\ counts = NoCounts
    /\ results = << >>
    /\ urlsCreated = 0
    /\ loopFiles = << >>
    /\ loopLive = FALSE
    /\ removalTimers = << >>
    /\ second = NoSecond

NextSession ==
    \/ NoMicrotask /\ \E files \in AddInputs : addFiles(files)
    \/ NoMicrotask /\ \E fileId \in Ids(selectedFiles) : removeFile(fileId)
    \/ NoMicrotask /\ removeFile_Timeout
    \/ NoMicrotask /\ clearAllFiles
    \/ decryptFiles_Start
    \/ decryptFiles_Again
    \/ KeyDerived
    \/ FileRead
    \/ KeyImported
    \/ Decrypted
    \/ FileDone

SpecSession == InitSession /\ [][NextSession]_vars

(***************************************************************************)
(* SpecSelection: the selection handlers alone, on files of three ids.     *)
(***************************************************************************)
\* two files of one id (same name, size and lastModified) with different
\* content, a container, and an empty file
SelectionFiles ==
    { File(PlainName, JpegBytes, 1, TRUE),
      File(PlainName, << 66, 77, 0, 0, 0, 0 >>, 1, TRUE),
      File(LinkName, GoodContainer, 1, TRUE),
      File(LegacyFileName, << >>, 1, TRUE) }

SelectionInputs == UNION { [1..n -> SelectionFiles] : n \in 1..MaxAdd }

NextSelection ==
    \/ \E files \in SelectionInputs : addFiles(files)
    \/ \E fileId \in Ids(selectedFiles) : removeFile(fileId)
    \/ removeFile_Timeout
    \/ clearAllFiles

SpecSelection == InitSession /\ [][NextSelection]_vars

UniqueIds(files) ==
    \A i, j \in 1..Len(files) :
        i # j => generateFileId(files[i]) # generateFileId(files[j])

\* what a call of addFiles has done to the selection: the old entries are
\* where they were, what follows them are files of the call, of ids that
\* were not selected, and every id of the call is selected now
AddedAtEnd(files) ==
    /\ Len(selectedFiles') >= Len(selectedFiles)
    /\ SubSeq(selectedFiles', 1, Len(selectedFiles)) = selectedFiles
    /\ \A i \in (Len(selectedFiles) + 1)..Len(selectedFiles') :
          /\ \E n \in 1..Len(files) : files[n] = selectedFiles'[i]
          /\ generateFileId(selectedFiles'[i]) \notin Ids(selectedFiles)
    /\ Ids(files) \subseteq Ids(selectedFiles')

\* what a completed removeFile(fileId) has done: the one entry of that id,
\* if there is one, is gone and the rest is as it was
RemovedExactly(fileId) ==
    LET hit == { i \in 1..Len(selectedFiles) : generateFileId(selectedFiles[i]) = fileId }
    IN /\ Cardinality(hit) <= 1
       /\ hit = {} => selectedFiles' = selectedFiles
       /\ \A i \in hit :
             selectedFiles' = SubSeq(selectedFiles, 1, i - 1)
                                \o SubSeq(selectedFiles, i + 1, Len(selectedFiles))

\* C20: after any sequence of addFiles, removeFile (with its timeout) and
\* clearAllFiles no two selected files have the same id; addFiles appends
\* the new files at the end and leaves the entries it found and their order
\* as they were, also when it is given a file twice; a completed
\* removeFile(id) removes exactly the entry of that id.
C20_SelectionKeepsUniqueIds ==
    /\ [](UniqueIds(selectedFiles))
    /\ [][\A files \in SelectionInputs : addFiles(files) => AddedAtEnd(files)]_vars
    /\ [][removeFile_Timeout => RemovedExactly(Head(removalTimers))]_vars

\* three files selected, then the middle one removed
C20_Witness ==
    /\ phase = "removeFile_Timeout"
    /\ Len(selectedFiles) = 2
    /\ selectedFiles[1].name = LegacyFileName
    /\ selectedFiles[2].name = PlainName
    /\ Len(fileStatus) = 2

\* C16: in every reachable state the object URLs that are live are among
\* the urls of the current decryptedFiles: clearAllFiles and a new run of
\* decryptFiles release the handles of the batch they drop.
C16_HandlesReleasedOnReset ==
    LiveHandles \subseteq { decryptedFiles[k].url : k \in 1..Len(decryptedFiles) }

\* C21: a reset is final: in every state whose last started handler is
\* clearAllFiles, decryptedFiles and extractedLinks are empty, also when
\* clearAllFiles ran while a batch was suspended at an await; nothing of the
\* interrupted batch is added before the next call of decryptFiles starts.
C21_ResetIsFinal ==
    phase = "clearAllFiles" => (decryptedFiles = << >> /\ extractedLinks = << >>)

(***************************************************************************)
(* A second call of decryptFiles made while an earlier call is suspended.  *)
(* Nothing in script.js disables the button or remembers that a batch is   *)
(* running, so the second call runs the same code on the same globals with *)
(* locals of its own, which are the fields of second.                      *)
(***************************************************************************)
\* decryptFiles up to its first suspension (script.js:690-725), called
\* while the earlier call is at an await
decryptFiles_Overlap ==
    /\ pc \in AtAwait
    /\ second.pc \in { "idle", "done" }
    /\ urlsCreated < MaxUrls
    /\ decryptedFiles' = << >>
    /\ extractedLinks' = << >>
    /\ second' = [second EXCEPT !.pc = IF Len(selectedFiles) = 0 THEN "done" ELSE "keygen"]
    /\ phase' = "decryptFiles"
    /\ arg' = selectedFiles
    /\ UNCHANGED <<ret, password, selectedFiles, pc, idx, key, cur, counts, results,
                   fileStatus, urlsCreated, loopFiles, loopLive, removalTimers>>

\* processFile of the second call up to its first suspension
\* (script.js:734-735 and 606-623)
Second_BeginFile(locals, files, i, shown) ==
    LET file == files[i]
        filenameInfo == decryptFilename(file.name, PasswordOrDefault)
    IN /\ fileStatus' = updateFileStatus(shown, generateFileId(file), "processing")
       /\ extractedLinks' =
            IF LinkFound(filenameInfo, file)
            THEN Append(extractedLinks, [filename |-> file.name,
                                         dateTime |-> filenameInfo.dateTime,
                                         link |-> filenameInfo.link])
            ELSE extractedLinks
       /\ second' = [locals EXCEPT
                        !.cur = [file |-> file, filenameInfo |-> filenameInfo,
                                 result |-> << >>],
                        !.idx = i,
                        !.pc = "reading"]

\* the end of the second call (script.js:757-794)
Second_EndBatch(locals, shown) ==
    /\ fileStatus' = shown
    /\ second' = [locals EXCEPT !.cur = << >>, !.pc = "done"]
    /\ UNCHANGED extractedLinks

\* generateKey of the second call resolves (script.js:725-735)
Second_KeyDerived ==
    /\ second.pc = "keygen"
    /\ NoMicrotask
    /\ LET locals == [second EXCEPT !.key = generateKey(PasswordOrDefault),
                                    !.counts = NoCounts,
                                    !.results = << >>,
                                    !.loopFiles = selectedFiles,
                                    !.loopLive = TRUE]
       IN IF Len(selectedFiles) >= 1
          THEN Second_BeginFile(locals, selectedFiles, 1, fileStatus)
          ELSE Second_EndBatch(locals, fileStatus)
    /\ UNCHANGED <<password, selectedFiles, decryptedFiles, pc, idx, key, cur, counts,
                   results, urlsCreated, loopFiles, loopLive, removalTimers>>
    /\ UNCHANGED harnessVars

\* the successful end of processFile in the second call (script.js:645-675)
Second_Succeed(decryptedData, fileType, isEncrypted) ==
    LET name == outputFileName(second.cur.file.name, second.cur.filenameInfo, fileType)
    IN /\ urlsCreated' = urlsCreated + 1
       /\ decryptedFiles' = Append(decryptedFiles,
                                   [url |-> urlsCreated + 1, name |-> name,
                                    data |-> decryptedData, mime |-> fileType.mime,
                                    source |-> generateFileId(second.cur.file)])
       /\ second' = [second EXCEPT
                        !.cur.result =
                            [success |-> TRUE, error |-> "", isEncrypted |-> isEncrypted,
                             fileType |-> fileType.type, outputFileName |-> name],
                        !.pc = "returned"]

Second_Fail(msg) ==
    /\ second' = [second EXCEPT !.cur.result = Failed(msg), !.pc = "returned"]
    /\ UNCHANGED <<decryptedFiles, urlsCreated>>

\* file.arrayBuffer() of the second call resolves (script.js:623-643, 150-175)
Second_FileRead ==
    /\ second.pc = "reading"
    /\ NoMicrotask
    /\ LET fileData == second.cur.file.data
       IN IF ~second.cur.file.readable
          THEN Second_Fail("NotReadable")
          ELSE IF checkEncryptionMarker(fileData)
               THEN LET r == decryptFileData(fileData, second.key)
                    IN IF ~r.ok THEN Second_Fail(r.error)
                       ELSE /\ second' = [second EXCEPT !.pc = "importing"]
                            /\ UNCHANGED <<decryptedFiles, urlsCreated>>
               ELSE Second_Succeed(fileData, detectFileType(fileData), FALSE)
    /\ UNCHANGED <<password, selectedFiles, extractedLinks, pc, idx, key, cur, counts,
                   results, fileStatus, loopFiles, loopLive, removalTimers>>
    /\ UNCHANGED harnessVars

\* importKey of the second call resolves (script.js:169-207)
Second_KeyImported ==
    /\ second.pc = "importing"
    /\ NoMicrotask
    /\ second' = [second EXCEPT !.pc = "decrypting"]
    /\ UNCHANGED <<password, selectedFiles, decryptedFiles, extractedLinks, pc, idx, key, cur,
                   counts, results, fileStatus, urlsCreated, loopFiles, loopLive,
                   removalTimers>>
    /\ UNCHANGED harnessVars

\* decrypt of the second call resolves (script.js:199-209, 633-638)
Second_Decrypted ==
    /\ second.pc = "decrypting"
    /\ NoMicrotask
    /\ LET decryptedData == decryptFileData(second.cur.file.data, second.key).data
           fileType == detectFileType(decryptedData)
       IN IF ~fileType.isValid THEN Second_Fail("WrongPasswordOrCorrupted")
          ELSE Second_Succeed(decryptedData, fileType, TRUE)
    /\ UNCHANGED <<password, selectedFiles, extractedLinks, pc, idx, key, cur, counts,
                   results, fileStatus, loopFiles, loopLive, removalTimers>>
    /\ UNCHANGED harnessVars

\* processFile of the second call has returned (script.js:738-758)
Second_FileDone ==
    /\ second.pc = "returned"
    /\ LET result == second.cur.result
           locals == [second EXCEPT !.results = Append(@, result),
                                    !.counts = Tally(@, result)]
           shown == updateFileStatus(fileStatus, generateFileId(second.cur.file),
                                     IF result.success THEN "success" ELSE "error")
       IN IF second.idx < Len(second.loopFiles)
          THEN Second_BeginFile(locals, second.loopFiles, second.idx + 1, shown)
          ELSE Second_EndBatch(locals, shown)
    /\ UNCHANGED <<password, selectedFiles, decryptedFiles, pc, idx, key, cur, counts,
                   results, urlsCreated, loopFiles, loopLive, removalTimers>>
    /\ UNCHANGED harnessVars

(***************************************************************************)
(* SpecOverlap: decryptFiles called on a fixed selection, and called again *)
(* while that call is suspended, the two calls resuming in any order.      *)
(***************************************************************************)
OverlapSelections ==
    { sel \in UNION { [1..n -> SessionFiles] : n \in 0..MaxFiles } :
        \A i, j \in DOMAIN sel : i # j => generateFileId(sel[i]) # generateFileId(sel[j]) }

InitOverlap ==
    /\ phase = "none"
    /\ arg = << >>
    /\ ret = << >>
    /\ password = BatchPassword
    /\ selectedFiles \in OverlapSelections
    /\ fileStatus = updateFilesDisplay(selectedFiles)
    /\ decryptedFiles = << >>
    /\ extractedLinks = << >>
    /\ pc = "idle"
    /\ idx = 0
    /\ key = << >>
    /\ cur = << >>
    /\ counts = NoCounts
    /\ results = << >>
    /\ urlsCreated = 0
    /\ loopFiles = << >>
    /\ loopLive = FALSE
    /\ removalTimers = << >>
    /\ second = NoSecond

NextOverlap ==
    \/ decryptFiles_Start
    \/ decryptFiles_Overlap
    \/ NoMicrotask /\ KeyDerived
    \/ NoMicrotask /\ FileRead
    \/ NoMicrotask /\ KeyImported
    \/ NoMicrotask /\ Decrypted
    \/ FileDone
    \/ Second_KeyDerived
    \/ Second_FileRead
    \/ Second_KeyImported
    \/ Second_Decrypted
    \/ Second_FileDone

SpecOverlap == InitOverlap /\ [][NextOverlap]_vars

\* C22: overlapping batches do not duplicate results: when decryptFiles
\* was called again while an earlier call was suspended and both calls have
\* finished, no two entries of decryptedFiles come from the same selected
\* file, and extractedLinks is the list a single batch over the selection
\* leaves, with at most one entry per selected file.
C22_OverlapNoDuplicates ==
    (pc = "done" /\ second.pc = "done") =>
        /\ \A k, l \in 1..Len(decryptedFiles) :
              k # l => decryptedFiles[k].source # decryptedFiles[l].source
        /\ extractedLinks = LinksOf(selectedFiles)

\* C23: a batch processes exactly the files that were selected when
\* decryptFiles started: when a batch over a selection that was not empty
\* has ended, processFile has returned once per file of that selection,
\* successCount + errorCount is the number of those files, and every
\* output comes from one of them, also when addFiles ran or a removal
\* completed while the batch was suspended.
C23_BatchProcessesStartSelection ==
    (pc = "done" /\ arg # << >>) =>
        /\ Len(results) = Len(arg)
        /\ counts.successCount + counts.errorCount = Len(arg)
        /\ \A k \in 1..Len(decryptedFiles) : decryptedFiles[k].source \in Ids(arg)

====
